---- MODULE Spec2Model ----
(***************************************************************************)
(* Model of the wash shell commands ls, import, mkdir (src/unnamed/        *)
(* part_000) and mv (src/lib/wash/exe/mv.js).  One behaviour of Spec is    *)
(* one invocation of one command against an invocation context (cx) and a  *)
(* filesystem manager whose operations settle asynchronously.  BootSpec    *)
(* is the application bootstrap at the end of mv.js.                       *)
(***************************************************************************)
EXTENDS Integers, Sequences, FiniteSets, TLC

\* ------------------------------------------------------------------ bounds
MaxArgs == 3
MaxFiles == 2
MaxFocus == 2
\* Launch events delivered to the application.
MaxLaunch == 3

\* ------------------------------------------------------------- path values
\* A path is the sequence of its segments; the root is <<>>.
Pwd == <<"w">>

\* The path specs a user can type: relative, relative with dot segments,
\* absolute.  In the initial filesystem a is a directory of three entries,
\* b a regular file, e an empty directory, .. the root with its one entry,
\* and n and /c do not exist.
SpecSet ==
  { [abs |-> FALSE, segs |-> <<"a">>],
    [abs |-> FALSE, segs |-> <<".", "b">>],
    [abs |-> FALSE, segs |-> <<"e">>],
    [abs |-> FALSE, segs |-> <<"..">>],
    [abs |-> FALSE, segs |-> <<"n">>],
    [abs |-> TRUE, segs |-> <<"w", "..", "c">>] }

DotSpec == [abs |-> FALSE, segs |-> <<".">>]

RECURSIVE Normalize(_, _)
Normalize(acc, segs) ==
  IF segs = <<>> THEN acc
  ELSE LET s == Head(segs) IN
       IF s = "." THEN Normalize(acc, Tail(segs))
       ELSE IF s = ".."
         THEN Normalize(IF acc = <<>> THEN acc
                        ELSE SubSeq(acc, 1, Len(acc) - 1), Tail(segs))
         ELSE Normalize(Append(acc, s), Tail(segs))

PathAbs(pwd, spec) ==
  Normalize(<<>>, IF spec.abs THEN spec.segs ELSE pwd \o spec.segs)

\* Path.abs(destination.spec, relativePath) for a relative path of segments.
PathJoin(base, rel) == Normalize(<<>>, base \o rel)

GetParentPath(p) == SubSeq(p, 1, Len(p) - 1)

GetBaseName(p) == p[Len(p)]

\* The directories mkdirParent_(p) calls mkdir for, in call order: every
\* non-root prefix of p, shortest first.
MkdirChain(p) == [i \in 1..Len(p) |-> SubSeq(p, 1, i)]

\* ------------------------------------------------------------ error values
Err(kind, arg) == [kind |-> kind, arg |-> arg]

NullV == Err("null", <<>>)
UnsetV == Err("unset", <<>>)

TypeMismatchTest(e) == e.kind = "TypeMismatch"
NotFoundTest(e) == e.kind = "NotFound"
DuplicateTest(e) == e.kind = "Duplicate"

\* ------------------------------------------------------ filesystem manager
ModeX == 1
ModeW == 2
ModeR == 4
ModeD == 8

DirStat == [mode |-> ModeD + ModeR, mtime |-> 0]
FileStat == [mode |-> ModeR + ModeW, mtime |-> 1, size |-> 2]
ExeStat == [mode |-> ModeX, signature |-> "sig"]
ExeRStat == [mode |-> ModeX + ModeR, mtime |-> 1, signature |-> "sig"]

\* The filesystem is a function from the paths that exist to their stat.
InitFs ==
  (<<>> :> DirStat) @@ (<<"w">> :> DirStat) @@ (<<"w", "a">> :> DirStat)
  @@ (<<"w", "b">> :> FileStat) @@ (<<"w", "e">> :> DirStat)
  @@ (<<"w", "a", "f">> :> FileStat)
  @@ (<<"w", "a", "run">> :> ExeStat) @@ (<<"w", "a", "tool">> :> ExeRStat)

Exists(f, p) == p \in DOMAIN f
IsDir(f, p) == Exists(f, p) /\ (f[p].mode \div ModeD) % 2 = 1

Children(f, p) ==
  { q \in DOMAIN f : Len(q) = Len(p) + 1 /\ SubSeq(q, 1, Len(p)) = p }

\* Outcome of each operation against filesystem f: [ok, err, fs, val].
Outcome(ok, err, f, val) == [ok |-> ok, err |-> err, fs |-> f, val |-> val]

FsList(f, p) ==
  IF ~Exists(f, p) THEN Outcome(FALSE, Err("NotFound", p), f, <<>>)
  ELSE IF ~IsDir(f, p) THEN Outcome(FALSE, Err("TypeMismatch", p), f, <<>>)
  ELSE Outcome(TRUE, NullV, f,
               [n \in { GetBaseName(q) : q \in Children(f, p) } |->
                  f[Append(p, n)]])

FsStat(f, p) ==
  IF ~Exists(f, p) THEN Outcome(FALSE, Err("NotFound", p), f, <<>>)
  ELSE Outcome(TRUE, NullV, f, f[p])

FsMkdir(f, p) ==
  IF Exists(f, p) THEN Outcome(FALSE, Err("Duplicate", p), f, <<>>)
  ELSE IF ~IsDir(f, GetParentPath(p))
    THEN Outcome(FALSE, Err("NotFound", p), f, <<>>)
    ELSE Outcome(TRUE, NullV, (p :> DirStat) @@ f, <<>>)

FsWriteFile(f, p) ==
  IF p = <<>> \/ ~IsDir(f, GetParentPath(p))
    THEN Outcome(FALSE, Err("NotFound", p), f, <<>>)
  ELSE IF IsDir(f, p) THEN Outcome(FALSE, Err("TypeMismatch", p), f, <<>>)
  ELSE Outcome(TRUE, NullV, (p :> FileStat) @@ f, <<>>)

IsPrefix(p, q) == Len(p) <= Len(q) /\ SubSeq(q, 1, Len(p)) = p

Rebase(from, to, q) == to \o SubSeq(q, Len(from) + 1, Len(q))

FsMove(f, from, to) ==
  IF ~Exists(f, from) THEN Outcome(FALSE, Err("NotFound", from), f, <<>>)
  ELSE IF to = <<>> \/ from = <<>> \/ Exists(f, to) \/ IsPrefix(from, to)
          \/ ~IsDir(f, GetParentPath(to))
    THEN Outcome(FALSE, Err("Invalid", to), f, <<>>)
    ELSE LET moved == { q \in DOMAIN f : IsPrefix(from, q) }
             kept == DOMAIN f \ moved
             dest == { Rebase(from, to, q) : q \in moved }
         IN Outcome(TRUE, NullV,
                    [q \in kept \cup dest |->
                       IF q \in kept THEN f[q]
                       ELSE f[CHOOSE r \in moved : Rebase(from, to, r) = q]],
                    <<>>)

\* A backend may also fail any operation with an error of its own, leaving
\* the filesystem unchanged.
BackendFail(f, p) == Outcome(FALSE, Err("Backend", p), f, <<>>)

FsApply(f, o) ==
  CASE o.op = "list" -> FsList(f, o.path)
    [] o.op = "stat" -> FsStat(f, o.path)
    [] o.op = "mkdir" -> FsMkdir(f, o.path)
    [] o.op = "writeFile" -> FsWriteFile(f, o.path)
    [] o.op = "move" -> FsMove(f, o.path, o.to)

Outcomes(f, o) == { FsApply(f, o), BackendFail(f, o.path) }

\* --------------------------------------------------------- stat formatter
\* Lexicographic order of the stat keys and of the entry names in use, and
\* the length of each name.
KeyOrder == <<"mode", "mtime", "signature", "size">>
NameOrder ==
  <<"a", "b", "c", "d", "e", "f", "n", "run", "tool", "w", "x", "y", "z">>
NameLen(n) == IF n = "run" THEN 3 ELSE IF n = "tool" THEN 4 ELSE 1

SortKeys(S) == SelectSeq(KeyOrder, LAMBDA k : k \in S)
SortNames(S) == SelectSeq(NameOrder, LAMBDA n : n \in S)

\* Bitwise exclusive or of two mode bitmasks (four bits).
RECURSIVE BitXor(_, _, _)
BitXor(a, b, n) ==
  IF n = 0 THEN 0
  ELSE (((a % 2) + (b % 2)) % 2) + 2 * BitXor(a \div 2, b \div 2, n - 1)

BitAnd(a, bit) == IF (a \div bit) % 2 = 1 THEN bit ELSE 0

FormatValue(stat, key) ==
  IF key \notin DOMAIN stat THEN [key |-> key, how |-> "json", v |-> "undefined"]
  ELSE IF key = "mtime" THEN [key |-> key, how |-> "date", v |-> ToString(stat[key])]
  ELSE IF key = "mode" THEN [key |-> key, how |-> "modeIntToString", v |-> ToString(stat[key])]
  ELSE [key |-> key, how |-> "json", v |-> ToString(stat[key])]

formatStat(stat) ==
  LET keys0 == SortKeys(DOMAIN stat)
      keys == IF stat.mode = ModeX THEN <<"signature">>
              ELSE IF BitXor(stat.mode, ModeX, 4) # 0
                THEN SelectSeq(keys0, LAMBDA n : n # "signature")
                ELSE keys0
  IN [i \in 1..Len(keys) |-> FormatValue(stat, keys[i])]

\* ------------------------------------------------------- invocation state
VARIABLES
  inv,        \* the invocation: command, help flag, '_' arguments, --file
  pc,         \* "start": main not yet run; "run": handlers pending; "done"
  list,       \* the targets not yet shifted off (pathList / list)
  tix,        \* index of the target the current operation belongs to
  fs,         \* the filesystem behind cx.fileSystemManager
  pend,       \* filesystem operations issued and not yet settled
  fsCalls,    \* every filesystem operation issued, in issue order
  settledLog, \* ls, mkdir, mv: the outcome of every settled operation, in order
  fileCalls,  \* import: per file, the operations issued for it, in order
  fileSettled, \* import: per file, the outcome of each settled operation
  stdout,     \* every cx.stdout.write, in order
  closeLog,   \* every cx.closeOk / cx.closeError call, in order
  errors,     \* mkdir's aggregate flag
  attached,   \* import: input_ and dummyFocusInput_ are in the document
  destroyCalls, \* import: number of destroy_ calls
  filesChosen,  \* import: this.filesChosen_
  chgFired,   \* import: the change event has been delivered
  focusCnt,   \* import: focus events delivered to the decoy so far
  timers,     \* import: 100 ms timers set and not yet expired
  files,      \* import: destination path of each selected file
  fstate,     \* import: per file, "reading" / "stat" / "mkdir" / "write" / "done"
  mkq,        \* import: per file, directories mkdirParent_ has yet to create
  results,    \* import: per file, the value its completer resolved with
  joined,     \* import: the Promise.all continuation has run
  axiomCommands,  \* bootstrap: the module variable, "null" until bound
  didLaunchEarly, \* bootstrap: the module variable
  readyState,     \* bootstrap: ready state of the commands service
  bootPc,         \* bootstrap: "off" / "init" / "bound" / "ready" / "failed"
  launches,       \* bootstrap: launch events delivered so far
  earlyLaunches,  \* bootstrap: launch events that found the service not usable
  dispatchLog     \* bootstrap: every dispatch('launch-app'), in order

vars == <<inv, pc, list, tix, fs, pend, fsCalls, settledLog, fileCalls,
          fileSettled, stdout, closeLog,
          errors, attached, destroyCalls, filesChosen, chgFired, focusCnt,
          timers, files, fstate, mkq, results, joined,
          axiomCommands, didLaunchEarly, readyState, bootPc, launches,
          earlyLaunches, dispatchLog>>

bootVars == <<axiomCommands, didLaunchEarly, readyState, bootPc, launches,
              earlyLaunches, dispatchLog>>

importVars == <<fileCalls, fileSettled, attached, destroyCalls, filesChosen, chgFired, focusCnt,
                timers, files, fstate, mkq, results, joined>>

RECURSIVE SeqsUpTo(_, _)
SeqsUpTo(S, n) ==
  IF n = 0 THEN {<<>>}
  ELSE LET shorter == SeqsUpTo(S, n - 1)
       IN shorter \cup { Append(q, x) : q \in { r \in shorter : Len(r) = n - 1 }, x \in S }

Invocations ==
  { [cmd |-> c, help |-> h, args |-> a, single |-> FALSE] :
      c \in {"ls", "mkdir", "mv"}, h \in BOOLEAN, a \in SeqsUpTo(SpecSet, MaxArgs) }
  \cup
  { [cmd |-> "import", help |-> h, args |-> a, single |-> s] :
      h \in BOOLEAN, a \in SeqsUpTo(SpecSet, 2), s \in BOOLEAN }

Init ==
  /\ inv \in Invocations
  /\ pc = "start"
  /\ list = inv.args
  /\ tix = 0
  /\ fs = InitFs
  /\ pend = {}
  /\ fsCalls = <<>>
  /\ settledLog = <<>>
  /\ fileCalls = <<>>
  /\ fileSettled = <<>>
  /\ stdout = <<>>
  /\ closeLog = <<>>
  /\ errors = FALSE
  /\ attached = FALSE
  /\ destroyCalls = 0
  /\ filesChosen = FALSE
  /\ chgFired = FALSE
  /\ focusCnt = 0
  /\ timers = 0
  /\ files = <<>>
  /\ fstate = <<>>
  /\ mkq = <<>>
  /\ results = <<>>
  /\ joined = FALSE
  /\ axiomCommands = "null"
  /\ didLaunchEarly = FALSE
  /\ readyState = "WAIT"
  /\ bootPc = "off"
  /\ launches = 0
  /\ earlyLaunches = 0
  /\ dispatchLog = <<>>

\* ------------------------------------------------------ invocation context
CloseOkCall == [call |-> "closeOk", err |-> NullV, errs |-> <<>>]
CloseErrorCall(e) == [call |-> "closeError", err |-> e, errs |-> <<>>]
CloseUnknownCall(es) ==
  [call |-> "closeError", err |-> Err("Unknown", <<>>), errs |-> es]

Settled(o, r) == [who |-> o.who, op |-> o.op, ok |-> r.ok, err |-> r.err]

Op(op, path, to, who) == [op |-> op, path |-> path, to |-> to, who |-> who]

Usage == [who |-> 0, lines |-> <<[t |-> "usage"]>>]

Spaces(n) == [i \in 1..n |-> " "]

\* ---------------------------------------------------------------------- ls
\* ListingText with the plural header for every count.
ListingText_Plural(path, listResult) ==
  LET names == SortNames(DOMAIN listResult)
      n == Len(names)
      header == [t |-> "header", path |-> path, N |-> n, text |-> "N entries:"]
      longest == IF n = 0 THEN 0
                 ELSE CHOOSE m \in { NameLen(names[i]) : i \in 1..n } :
                        \A i \in 1..n : NameLen(names[i]) <= m
      line(name) ==
        [t |-> "entry", name |-> name,
         fill |-> <<IF BitAnd(listResult[name].mode, ModeD) # 0 THEN "/" ELSE " ">>
                  \o Spaces(longest - NameLen(name)) \o Spaces(3),
         stat |-> formatStat(listResult[name])]
  IN <<header>> \o [i \in 1..n |-> line(names[i])]

\* The text the list handler builds for one directory: header line, then one
\* line per entry in sorted order.
ListingText(path, listResult) ==
  LET names == SortNames(DOMAIN listResult)
      n == Len(names)
      header == [t |-> "header", path |-> path, N |-> n,
                 text |-> IF n = 0 THEN "empty."
                          ELSE IF n = 1 THEN "1 entry:" ELSE "N entries:"]
      longest == IF n = 0 THEN 0
                 ELSE CHOOSE m \in { NameLen(names[i]) : i \in 1..n } :
                        \A i \in 1..n : NameLen(names[i]) <= m
      line(name) ==
        [t |-> "entry", name |-> name,
         fill |-> <<IF BitAnd(listResult[name].mode, ModeD) # 0 THEN "/" ELSE " ">>
                  \o Spaces(longest - NameLen(name)) \o Spaces(3),
         stat |-> formatStat(listResult[name])]
  IN <<header>> \o [i \in 1..n |-> line(names[i])]

StatText(path, stat) ==
  <<[t |-> "entry", name |-> GetBaseName(path), fill |-> Spaces(2),
     stat |-> formatStat(stat)]>>

\* listNext issuing the list of every remaining target at once instead of
\* one per turn.
listNext_AllAtOnce(pl, cl, out) ==
  /\ stdout' = out
  /\ errors' = errors
  /\ IF pl = <<>>
       THEN /\ closeLog' = Append(cl, CloseOkCall)
            /\ pend' = {}
            /\ pc' = "done"
            /\ UNCHANGED <<list, tix, fsCalls>>
       ELSE LET os == [k \in 1..Len(pl) |->
                         Op("list", PathAbs(Pwd, pl[k]), <<>>, tix + k)]
            IN /\ list' = <<>>
               /\ tix' = tix + Len(pl)
               /\ pend' = { os[k] : k \in 1..Len(pl) }
               /\ fsCalls' = fsCalls \o os
               /\ closeLog' = cl
               /\ pc' = "run"

\* listNext: close Ok when no target is left, else shift the next target and
\* issue its list.  cl and out are the close log and stdout so far.
listNext(pl, cl, out) ==
  /\ stdout' = out
  /\ errors' = errors
  /\ IF pl = <<>>
       THEN /\ closeLog' = Append(cl, CloseOkCall)
            /\ pend' = {}
            /\ pc' = "done"
            /\ UNCHANGED <<list, tix, fsCalls>>
       ELSE LET o == Op("list", PathAbs(Pwd, Head(pl)), <<>>, tix + 1)
            IN /\ list' = Tail(pl)
               /\ tix' = tix + 1
               /\ pend' = {o}
               /\ fsCalls' = Append(fsCalls, o)
               /\ closeLog' = cl
               /\ pc' = "run"

\* The catch handlers' cx.closeError(value): its return value resolves the
\* promise listPathSpec returned, so listNext runs next.  A context that is
\* already closed may instead throw from the call, which rejects that
\* promise and ends the chain.
lsCloseError(value) ==
  \/ listNext(list, Append(closeLog, CloseErrorCall(value)), stdout)
  \/ /\ closeLog # <<>>
     /\ closeLog' = Append(closeLog, CloseErrorCall(value))
     /\ pend' = {}
     /\ pc' = "done"
     /\ UNCHANGED <<list, tix, fsCalls, stdout, errors>>

LsMain ==
  /\ pc = "start"
  /\ inv.cmd = "ls"
  /\ IF inv.help
       THEN /\ stdout' = Append(stdout, Usage)
            /\ closeLog' = Append(closeLog, CloseOkCall)
            /\ pc' = "done"
            /\ UNCHANGED <<list, tix, pend, fsCalls, errors>>
       ELSE listNext(IF inv.args = <<>> THEN <<[abs |-> TRUE, segs |-> Pwd]>>
                     ELSE inv.args, closeLog, stdout)
  /\ UNCHANGED <<bootVars, inv, fs, settledLog, importVars>>

\* LsListSettled that treats TypeMismatch like every other failure.
LsListSettled_NoFallback ==
  /\ inv.cmd = "ls"
  /\ \E o \in pend : \E r \in Outcomes(fs, o) :
       /\ o.op = "list"
       /\ fs' = r.fs
       /\ settledLog' = Append(settledLog, Settled(o, r))
       /\ IF r.ok
            THEN listNext(list, closeLog,
                          Append(stdout, [who |-> o.who,
                                          lines |-> ListingText(o.path, r.val)]))
            ELSE lsCloseError(r.err)
  /\ UNCHANGED <<bootVars, inv, importVars>>

LsListSettled ==
  /\ inv.cmd = "ls"
  /\ \E o \in pend : \E r \in Outcomes(fs, o) :
       /\ o.op = "list"
       /\ fs' = r.fs
       /\ settledLog' = Append(settledLog, Settled(o, r))
       /\ IF r.ok
            THEN listNext(list, closeLog,
                          Append(stdout, [who |-> o.who,
                                          lines |-> ListingText(o.path, r.val)]))
            ELSE IF TypeMismatchTest(r.err)
              THEN LET s == Op("stat", o.path, <<>>, o.who)
                   IN /\ pend' = {s}
                      /\ fsCalls' = Append(fsCalls, s)
                      /\ UNCHANGED <<list, tix, stdout, closeLog, errors, pc>>
              ELSE lsCloseError(r.err)
  /\ UNCHANGED <<bootVars, inv, importVars>>

LsStatSettled ==
  /\ inv.cmd = "ls"
  /\ \E o \in pend : \E r \in Outcomes(fs, o) :
       /\ o.op = "stat"
       /\ fs' = r.fs
       /\ settledLog' = Append(settledLog, Settled(o, r))
       /\ IF r.ok
            THEN listNext(list, closeLog,
                          Append(stdout, [who |-> o.who,
                                          lines |-> StatText(o.path, r.val)]))
            ELSE lsCloseError(r.err)
  /\ UNCHANGED <<bootVars, inv, importVars>>

\* ------------------------------------------------------------------- mkdir
SomeNotCreated == Err("Runtime", <<"Some directories could not be created">>)

\* mkdirNext whose chain is never followed by the closing handler.
mkdirNext_NoFinalClose(err, out) ==
  /\ stdout' = out
  /\ errors' = err
  /\ IF list = <<>>
       THEN /\ pend' = {}
            /\ pc' = "done"
            /\ UNCHANGED <<list, tix, fsCalls, closeLog>>
       ELSE LET o == Op("mkdir", PathAbs(Pwd, Head(list)), <<>>, tix + 1)
            IN /\ list' = Tail(list)
               /\ tix' = tix + 1
               /\ pend' = {o}
               /\ fsCalls' = Append(fsCalls, o)
               /\ closeLog' = closeLog
               /\ pc' = "run"

\* mkdirNext whose closing handler ignores the errors flag.
mkdirNext_AlwaysOk(err, out) ==
  /\ stdout' = out
  /\ errors' = err
  /\ IF list = <<>>
       THEN /\ closeLog' = Append(closeLog, CloseOkCall)
            /\ pend' = {}
            /\ pc' = "done"
            /\ UNCHANGED <<list, tix, fsCalls>>
       ELSE LET o == Op("mkdir", PathAbs(Pwd, Head(list)), <<>>, tix + 1)
            IN /\ list' = Tail(list)
               /\ tix' = tix + 1
               /\ pend' = {o}
               /\ fsCalls' = Append(fsCalls, o)
               /\ closeLog' = closeLog
               /\ pc' = "run"

\* mkdirNext: with no target left the chain resolves and main's final
\* handler closes; else shift the next target and issue its mkdir.
mkdirNext(err, out) ==
  /\ stdout' = out
  /\ errors' = err
  /\ IF list = <<>>
       THEN /\ closeLog' = Append(closeLog, IF err THEN CloseErrorCall(SomeNotCreated)
                                            ELSE CloseOkCall)
            /\ pend' = {}
            /\ pc' = "done"
            /\ UNCHANGED <<list, tix, fsCalls>>
       ELSE LET o == Op("mkdir", PathAbs(Pwd, Head(list)), <<>>, tix + 1)
            IN /\ list' = Tail(list)
               /\ tix' = tix + 1
               /\ pend' = {o}
               /\ fsCalls' = Append(fsCalls, o)
               /\ closeLog' = closeLog
               /\ pc' = "run"

MkdirMain ==
  /\ pc = "start"
  /\ inv.cmd = "mkdir"
  /\ IF Len(list) = 0 \/ inv.help
       THEN /\ stdout' = Append(stdout, Usage)
            /\ closeLog' = Append(closeLog, CloseOkCall)
            /\ pc' = "done"
            /\ UNCHANGED <<list, tix, pend, fsCalls, errors>>
       ELSE mkdirNext(FALSE, stdout)
  /\ UNCHANGED <<bootVars, inv, fs, settledLog, importVars>>

\* MkdirSettled whose catch handler stops at the first failure, as ls is
\* meant to.
MkdirSettled_AbortOnFailure ==
  /\ inv.cmd = "mkdir"
  /\ \E o \in pend : \E r \in Outcomes(fs, o) :
       /\ fs' = r.fs
       /\ settledLog' = Append(settledLog, Settled(o, r))
       /\ IF r.ok
            THEN mkdirNext(errors, stdout)
            ELSE /\ stdout' = Append(stdout,
                                     [who |-> o.who,
                                      lines |-> <<[t |-> "mkdir", path |-> o.path,
                                                   err |-> r.err]>>])
                 /\ errors' = TRUE
                 /\ closeLog' = Append(closeLog, CloseErrorCall(SomeNotCreated))
                 /\ pend' = {}
                 /\ pc' = "done"
                 /\ UNCHANGED <<list, tix, fsCalls>>
  /\ UNCHANGED <<bootVars, inv, importVars>>

MkdirSettled ==
  /\ inv.cmd = "mkdir"
  /\ \E o \in pend : \E r \in Outcomes(fs, o) :
       /\ fs' = r.fs
       /\ settledLog' = Append(settledLog, Settled(o, r))
       /\ IF r.ok
            THEN mkdirNext(errors, stdout)
            ELSE mkdirNext(TRUE,
                           Append(stdout,
                                  [who |-> o.who,
                                   lines |-> <<[t |-> "mkdir", path |-> o.path,
                                                err |-> r.err]>>]))
  /\ UNCHANGED <<bootVars, inv, importVars>>

\* ---------------------------------------------------------------------- mv
\* MvMain that rejects only too few targets.
MvMain_AtLeastTwo ==
  /\ pc = "start"
  /\ inv.cmd = "mv"
  /\ IF Len(list) < 2 \/ inv.help
       THEN /\ stdout' = Append(stdout, Usage)
            /\ closeLog' = Append(closeLog, CloseOkCall)
            /\ pc' = "done"
            /\ UNCHANGED <<pend, fsCalls>>
       ELSE LET o == Op("move", PathAbs(Pwd, list[1]), PathAbs(Pwd, list[2]), 1)
            IN /\ pend' = {o}
               /\ fsCalls' = Append(fsCalls, o)
               /\ pc' = "run"
               /\ UNCHANGED <<stdout, closeLog>>
  /\ UNCHANGED <<bootVars, inv, list, tix, fs, settledLog, errors, importVars>>

MvMain ==
  /\ pc = "start"
  /\ inv.cmd = "mv"
  /\ IF Len(list) # 2 \/ inv.help
       THEN /\ stdout' = Append(stdout, Usage)
            /\ closeLog' = Append(closeLog, CloseOkCall)
            /\ pc' = "done"
            /\ UNCHANGED <<pend, fsCalls>>
       ELSE LET o == Op("move", PathAbs(Pwd, list[1]), PathAbs(Pwd, list[2]), 1)
            IN /\ pend' = {o}
               /\ fsCalls' = Append(fsCalls, o)
               /\ pc' = "run"
               /\ UNCHANGED <<stdout, closeLog>>
  /\ UNCHANGED <<bootVars, inv, list, tix, fs, settledLog, errors, importVars>>

\* MvSettled that closes with an error of its own instead of move's.
MvSettled_OwnError ==
  /\ inv.cmd = "mv"
  /\ \E o \in pend : \E r \in Outcomes(fs, o) :
       /\ fs' = r.fs
       /\ settledLog' = Append(settledLog, Settled(o, r))
       /\ closeLog' = Append(closeLog, IF r.ok THEN CloseOkCall
                                       ELSE CloseErrorCall(Err("Runtime", o.path)))
  /\ pend' = {}
  /\ pc' = "done"
  /\ UNCHANGED <<bootVars, inv, list, tix, fsCalls, stdout, errors, importVars>>

MvSettled ==
  /\ inv.cmd = "mv"
  /\ \E o \in pend : \E r \in Outcomes(fs, o) :
       /\ fs' = r.fs
       /\ settledLog' = Append(settledLog, Settled(o, r))
       /\ closeLog' = Append(closeLog, IF r.ok THEN CloseOkCall
                                       ELSE CloseErrorCall(r.err))
  /\ pend' = {}
  /\ pc' = "done"
  /\ UNCHANGED <<bootVars, inv, list, tix, fsCalls, stdout, errors, importVars>>

\* ------------------------------------------------------------------ import
\* The relative paths (webkitRelativePath) of the files a user can pick, in
\* the order the file list enumerates them.
RelPaths == <<<<"d", "e", "z">>, <<"d", "y">>, <<"x">>>>

\* The file lists a change event can carry: the picked files, in order.
Selections ==
  { q \in SeqsUpTo(1..Len(RelPaths), MaxFiles) :
      \A i, j \in 1..Len(q) : i < j => q[i] < q[j] }

Destination == PathAbs(Pwd, IF inv.args = <<>> THEN DotSpec ELSE inv.args[1])

MissingSelection == Err("Missing", <<"file selection">>)

ImportMain ==
  /\ pc = "start"
  /\ inv.cmd = "import"
  /\ IF Len(list) > 1 \/ inv.help
       THEN /\ stdout' = Append(stdout, Usage)
            /\ closeLog' = Append(closeLog, CloseOkCall)
            /\ pc' = "done"
            /\ UNCHANGED <<list, attached>>
       ELSE /\ list' = IF list = <<>> THEN list ELSE Tail(list)
            /\ attached' = TRUE
            /\ pc' = "run"
            /\ UNCHANGED <<stdout, closeLog>>
  /\ UNCHANGED <<bootVars, inv, tix, fs, pend, fsCalls, settledLog, fileCalls, fileSettled, errors, destroyCalls,
                 filesChosen, chgFired, focusCnt, timers, files, fstate, mkq,
                 results, joined>>

\* The decoy input receives focus: handleFileCancel_ sets its 100 ms timer.
handleFileCancel ==
  /\ inv.cmd = "import"
  /\ pc = "run"
  /\ attached
  /\ focusCnt < MaxFocus
  /\ focusCnt' = focusCnt + 1
  /\ timers' = timers + 1
  /\ UNCHANGED <<bootVars, inv, pc, list, tix, fs, pend, fsCalls, settledLog, fileCalls, fileSettled, stdout,
                 closeLog, errors, attached, destroyCalls, filesChosen,
                 chgFired, files, fstate, mkq, results, joined>>

\* CancelTimeout that removes the elements but never closes the context.
CancelTimeout_NoClose ==
  /\ timers > 0
  /\ timers' = timers - 1
  /\ IF filesChosen
       THEN UNCHANGED <<attached, destroyCalls, closeLog>>
       ELSE /\ destroyCalls' = destroyCalls + 1
            /\ attached' = FALSE
            /\ UNCHANGED closeLog
  /\ UNCHANGED <<bootVars, inv, pc, list, tix, fs, pend, fsCalls, settledLog, fileCalls, fileSettled, stdout,
                 errors, filesChosen, chgFired, focusCnt, files, fstate, mkq,
                 results, joined>>

\* A timer set by handleFileCancel_ expires.  destroy_ throws from
\* removeChild when the elements are no longer in the document.
CancelTimeout ==
  /\ timers > 0
  /\ timers' = timers - 1
  /\ IF filesChosen
       THEN UNCHANGED <<attached, destroyCalls, closeLog>>
       ELSE /\ destroyCalls' = destroyCalls + 1
            /\ IF attached
                 THEN /\ attached' = FALSE
                      /\ closeLog' = Append(closeLog, CloseErrorCall(MissingSelection))
                 ELSE UNCHANGED <<attached, closeLog>>
  /\ UNCHANGED <<bootVars, inv, pc, list, tix, fs, pend, fsCalls, settledLog, fileCalls, fileSettled, stdout,
                 errors, filesChosen, chgFired, focusCnt, files, fstate, mkq,
                 results, joined>>

\* The change event of the file input: one reader and one completer per file.
handleFileSelect ==
  /\ inv.cmd = "import"
  /\ pc = "run"
  /\ ~chgFired
  /\ \E sel \in Selections :
       /\ inv.single => Len(sel) <= 1
       /\ files' = [i \in 1..Len(sel) |->
                      PathJoin(Destination,
                               IF inv.single THEN <<GetBaseName(RelPaths[sel[i]])>>
                               ELSE RelPaths[sel[i]])]
       /\ fstate' = [i \in 1..Len(sel) |-> "reading"]
       /\ mkq' = [i \in 1..Len(sel) |-> <<>>]
       /\ results' = [i \in 1..Len(sel) |-> UnsetV]
       /\ fileCalls' = [i \in 1..Len(sel) |-> <<>>]
       /\ fileSettled' = [i \in 1..Len(sel) |-> <<>>]
  /\ filesChosen' = TRUE
  /\ chgFired' = TRUE
  /\ UNCHANGED <<bootVars, inv, pc, list, tix, fs, pend, fsCalls, settledLog, stdout,
                 closeLog, errors, attached, destroyCalls, focusCnt, timers,
                 joined>>

\* reader.onload: stat the parent directory of the file.
onFileLoad(i) ==
  /\ fstate[i] = "reading"
  /\ fstate' = [fstate EXCEPT ![i] = "stat"]
  /\ pend' = pend \cup {Op("stat", GetParentPath(files[i]), <<>>, i)}
  /\ fileCalls' = [fileCalls EXCEPT ![i] = Append(@, Op("stat", GetParentPath(files[i]), <<>>, i))]
  /\ UNCHANGED <<bootVars, inv, pc, list, tix, fs, fsCalls, settledLog, fileSettled, stdout,
                 closeLog, errors,
                 attached, destroyCalls, filesChosen, chgFired, focusCnt,
                 timers, files, mkq, results, joined>>

\* The file's chain after its parent directory is known to exist.
issueWrite(i, o) ==
  LET w == Op("writeFile", files[i], <<>>, i)
  IN /\ pend' = (pend \ {o}) \cup {w}
     /\ fileCalls' = [fileCalls EXCEPT ![i] = Append(@, w)]
     /\ fstate' = [fstate EXCEPT ![i] = "write"]
     /\ mkq' = [mkq EXCEPT ![i] = <<>>]
     /\ UNCHANGED results

issueMkdir(i, o, chain) ==
  LET m == Op("mkdir", Head(chain), <<>>, i)
  IN /\ pend' = (pend \ {o}) \cup {m}
     /\ fileCalls' = [fileCalls EXCEPT ![i] = Append(@, m)]
     /\ fstate' = [fstate EXCEPT ![i] = "mkdir"]
     /\ mkq' = [mkq EXCEPT ![i] = Tail(chain)]
     /\ UNCHANGED results

\* fileCompleter.resolve(v)
complete(i, o, v) ==
  /\ pend' = pend \ {o}
  /\ fstate' = [fstate EXCEPT ![i] = "done"]
  /\ results' = [results EXCEPT ![i] = v]
  /\ UNCHANGED <<fileCalls, mkq>>

mkdirParent(i, o, chain) ==
  IF chain = <<>> THEN issueWrite(i, o) ELSE issueMkdir(i, o, chain)

\* StatSettled that writes the file at once when the parent is missing.
StatSettled_WriteFirst(i) ==
  /\ inv.cmd = "import"
  /\ \E o \in pend : \E r \in Outcomes(fs, o) :
       /\ o.op = "stat" /\ o.who = i
       /\ fs' = r.fs
       /\ fileSettled' = [fileSettled EXCEPT ![i] = Append(@, Settled(o, r))]
       /\ IF r.ok \/ NotFoundTest(r.err)
            THEN issueWrite(i, o)
            ELSE complete(i, o, r.err)
  /\ UNCHANGED <<bootVars, inv, pc, list, tix, fsCalls, settledLog, stdout, closeLog, errors,
                 attached, destroyCalls, filesChosen, chgFired, focusCnt,
                 timers, files, joined>>

StatSettled(i) ==
  /\ inv.cmd = "import"
  /\ \E o \in pend : \E r \in Outcomes(fs, o) :
       /\ o.op = "stat" /\ o.who = i
       /\ fs' = r.fs
       /\ fileSettled' = [fileSettled EXCEPT ![i] = Append(@, Settled(o, r))]
       /\ IF r.ok THEN issueWrite(i, o)
          ELSE IF NotFoundTest(r.err)
            THEN mkdirParent(i, o, MkdirChain(o.path))
            ELSE complete(i, o, r.err)
  /\ UNCHANGED <<bootVars, inv, pc, list, tix, fsCalls, settledLog, stdout, closeLog, errors,
                 attached, destroyCalls, filesChosen, chgFired, focusCnt,
                 timers, files, joined>>

\* MkdirParentSettled that goes on after every failure of mkdir.
MkdirParentSettled_TolerateAll(i) ==
  /\ inv.cmd = "import"
  /\ \E o \in pend : \E r \in Outcomes(fs, o) :
       /\ o.op = "mkdir" /\ o.who = i
       /\ fs' = r.fs
       /\ fileSettled' = [fileSettled EXCEPT ![i] = Append(@, Settled(o, r))]
       /\ mkdirParent(i, o, mkq[i])
  /\ UNCHANGED <<bootVars, inv, pc, list, tix, fsCalls, settledLog, stdout, closeLog, errors,
                 attached, destroyCalls, filesChosen, chgFired, focusCnt,
                 timers, files, joined>>

MkdirParentSettled(i) ==
  /\ inv.cmd = "import"
  /\ \E o \in pend : \E r \in Outcomes(fs, o) :
       /\ o.op = "mkdir" /\ o.who = i
       /\ fs' = r.fs
       /\ fileSettled' = [fileSettled EXCEPT ![i] = Append(@, Settled(o, r))]
       /\ IF r.ok \/ DuplicateTest(r.err)
            THEN mkdirParent(i, o, mkq[i])
            ELSE complete(i, o, r.err)
  /\ UNCHANGED <<bootVars, inv, pc, list, tix, fsCalls, settledLog, stdout, closeLog, errors,
                 attached, destroyCalls, filesChosen, chgFired, focusCnt,
                 timers, files, joined>>

WriteSettled(i) ==
  /\ inv.cmd = "import"
  /\ \E o \in pend : \E r \in Outcomes(fs, o) :
       /\ o.op = "writeFile" /\ o.who = i
       /\ fs' = r.fs
       /\ fileSettled' = [fileSettled EXCEPT ![i] = Append(@, Settled(o, r))]
       /\ complete(i, o, IF r.ok THEN NullV ELSE r.err)
  /\ UNCHANGED <<bootVars, inv, pc, list, tix, fsCalls, settledLog, stdout, closeLog, errors,
                 attached, destroyCalls, filesChosen, chgFired, focusCnt,
                 timers, files, joined>>

AllSettled == \A i \in 1..Len(results) : results[i] # UnsetV

\* CopyJoin that closes the context without calling destroy_.
CopyJoin_NoDestroy ==
  /\ inv.cmd = "import"
  /\ filesChosen
  /\ ~joined
  /\ AllSettled
  /\ joined' = TRUE
  /\ LET errs == SelectSeq(results, LAMBDA e : e # NullV)
     IN closeLog' = Append(closeLog, IF Len(errs) = 0 THEN CloseOkCall
                                     ELSE CloseUnknownCall(errs))
  /\ UNCHANGED <<bootVars, inv, pc, list, tix, fs, pend, fsCalls, settledLog, fileCalls, fileSettled, stdout,
                 errors, attached, destroyCalls, filesChosen, chgFired, focusCnt,
                 timers, files, fstate, mkq, results>>

\* The handler of Promise.all(copyPromises): destroy_, then close with the
\* aggregate of the completers' values.
CopyJoin ==
  /\ inv.cmd = "import"
  /\ filesChosen
  /\ ~joined
  /\ AllSettled
  /\ joined' = TRUE
  /\ destroyCalls' = destroyCalls + 1
  /\ IF attached
       THEN /\ attached' = FALSE
            /\ LET errs == SelectSeq(results, LAMBDA e : e # NullV)
               IN closeLog' = Append(closeLog, IF Len(errs) = 0 THEN CloseOkCall
                                               ELSE CloseUnknownCall(errs))
       ELSE UNCHANGED <<attached, closeLog>>
  /\ UNCHANGED <<bootVars, inv, pc, list, tix, fs, pend, fsCalls, settledLog, fileCalls, fileSettled, stdout,
                 errors, filesChosen, chgFired, focusCnt, timers, files,
                 fstate, mkq, results>>

\* ------------------------------------------------------------ specification
Next ==
  \/ LsMain
  \/ LsListSettled
  \/ LsStatSettled
  \/ MkdirMain
  \/ MkdirSettled
  \/ MvMain
  \/ MvSettled
  \/ ImportMain
  \/ handleFileCancel
  \/ CancelTimeout
  \/ handleFileSelect
  \/ \E i \in DOMAIN files : onFileLoad(i)
  \/ \E i \in DOMAIN files : StatSettled(i)
  \/ \E i \in DOMAIN files : MkdirParentSettled(i)
  \/ \E i \in DOMAIN files : WriteSettled(i)
  \/ CopyJoin

Spec == Init /\ [][Next]_vars

\* --------------------------------------------------------------- bootstrap
\* The application bootstrap is a program of its own: it starts with the
\* module variables as declared, the commands service not yet ready and
\* shellMain() pending; no command is invoked.
commandVars == <<inv, pc, list, tix, fs, pend, fsCalls, settledLog, fileCalls,
                 fileSettled, stdout, closeLog,
                 errors, attached, destroyCalls, filesChosen, chgFired, focusCnt,
                 timers, files, fstate, mkq, results, joined>>

BootInit ==
  /\ inv = [cmd |-> "boot", help |-> FALSE, args |-> <<>>, single |-> FALSE]
  /\ pc = "start"
  /\ list = <<>>
  /\ tix = 0
  /\ fs = InitFs
  /\ pend = {}
  /\ fsCalls = <<>>
  /\ settledLog = <<>>
  /\ fileCalls = <<>>
  /\ fileSettled = <<>>
  /\ stdout = <<>>
  /\ closeLog = <<>>
  /\ errors = FALSE
  /\ attached = FALSE
  /\ destroyCalls = 0
  /\ filesChosen = FALSE
  /\ chgFired = FALSE
  /\ focusCnt = 0
  /\ timers = 0
  /\ files = <<>>
  /\ fstate = <<>>
  /\ mkq = <<>>
  /\ results = <<>>
  /\ joined = FALSE
  /\ axiomCommands = "null"
  /\ didLaunchEarly = FALSE
  /\ readyState = "WAIT"
  /\ bootPc = "init"
  /\ launches = 0
  /\ earlyLaunches = 0
  /\ dispatchLog = <<>>

\* A dispatch('launch-app'), with the state of the service it was made in.
Dispatch(deferred) ==
  [deferred |-> deferred, commands |-> axiomCommands, state |-> readyState,
   settled |-> "pending"]

\* onLaunched that forgets a launch that came too early.
onLaunched_Forgetful(deferred) ==
  IF axiomCommands = "null" \/ readyState # "READY"
    THEN /\ earlyLaunches' = earlyLaunches + 1
         /\ UNCHANGED <<didLaunchEarly, dispatchLog>>
    ELSE /\ dispatchLog' = Append(dispatchLog, Dispatch(deferred))
         /\ UNCHANGED <<didLaunchEarly, earlyLaunches>>

\* onLaunched, called by the launch event (deferred = FALSE) and by the
\* whenReady handler (deferred = TRUE).
onLaunched(deferred) ==
  IF axiomCommands = "null" \/ readyState # "READY"
    THEN /\ didLaunchEarly' = TRUE
         /\ earlyLaunches' = earlyLaunches + 1
         /\ UNCHANGED dispatchLog
    ELSE /\ dispatchLog' = Append(dispatchLog, Dispatch(deferred))
         /\ UNCHANGED <<didLaunchEarly, earlyLaunches>>

\* chrome.app.runtime.onLaunched fires.
LaunchEvent ==
  /\ bootPc # "off"
  /\ launches < MaxLaunch
  /\ launches' = launches + 1
  /\ onLaunched(FALSE)
  /\ UNCHANGED <<axiomCommands, readyState, bootPc, commandVars>>

\* The commands service becomes ready, or fails to.
ServiceReady ==
  /\ bootPc # "off"
  /\ readyState = "WAIT"
  /\ readyState' \in {"READY", "ERROR"}
  /\ UNCHANGED <<axiomCommands, didLaunchEarly, bootPc, launches, earlyLaunches,
                 dispatchLog, commandVars>>

\* shellMain() settles: its handler binds the service and calls whenReady,
\* or the rejection goes to logCatch.
ShellMainSettled ==
  /\ bootPc = "init"
  /\ \/ axiomCommands' = "commands@axiom" /\ bootPc' = "bound"
     \/ bootPc' = "failed" /\ UNCHANGED axiomCommands
  /\ UNCHANGED <<didLaunchEarly, readyState, launches, earlyLaunches,
                 dispatchLog, commandVars>>

\* whenReady() settles: resolved once the service is READY, and then the
\* handler replays a remembered launch; rejected when the service failed.
WhenReadySettled ==
  /\ bootPc = "bound"
  /\ readyState # "WAIT"
  /\ IF readyState = "READY"
       THEN /\ bootPc' = "ready"
            /\ IF didLaunchEarly THEN onLaunched(TRUE)
               ELSE UNCHANGED <<didLaunchEarly, earlyLaunches, dispatchLog>>
       ELSE /\ bootPc' = "failed"
            /\ UNCHANGED <<didLaunchEarly, earlyLaunches, dispatchLog>>
  /\ UNCHANGED <<axiomCommands, readyState, launches, commandVars>>

\* The promise of a dispatch settles; a rejection goes to logCatch.
DispatchSettled ==
  /\ \E k \in DOMAIN dispatchLog : \E how \in {"resolved", "logCatch"} :
       /\ dispatchLog[k].settled = "pending"
       /\ dispatchLog' = [dispatchLog EXCEPT ![k].settled = how]
  /\ UNCHANGED <<axiomCommands, didLaunchEarly, readyState, bootPc, launches,
                 earlyLaunches, commandVars>>

BootNext ==
  \/ LaunchEvent
  \/ ServiceReady
  \/ ShellMainSettled
  \/ WhenReadySettled
  \/ DispatchSettled

BootSpec == BootInit /\ [][BootNext]_vars

\* ------------------------------------------------------------------ claims
\* The targets the sequential commands work through.
Targets ==
  IF inv.cmd = "ls" /\ inv.args = <<>> THEN <<[abs |-> TRUE, segs |-> Pwd]>>
  ELSE inv.args

HasCloseError == \E k \in DOMAIN closeLog : closeLog[k].call = "closeError"

\* C1: in every invocation of ls, mkdir, mv or import the invocation context
\* is closed at most once in total: closeOk and closeError are never both
\* called and neither is called twice.
C1_ClosedAtMostOnce == Len(closeLog) <= 1

\* C2: in ls, once list (or the fallback stat) of a target has failed hard
\* and the command has been closed with that error, the command has aborted:
\* no list or stat is issued for a later target.
C2_LsAbortsOnHardFailure ==
  (inv.cmd = "ls" /\ HasCloseError) => (pend = {} /\ pc = "done")

Failed(k) == ~settledLog[k].ok

\* C4: ls and mkdir work through their targets strictly in argument order,
\* one filesystem operation at a time: an operation is issued only when every
\* earlier one has settled, each is for the target at its index, and output
\* is written in target order.
C4_SequentialInOrder ==
  (inv.cmd \in {"ls", "mkdir"}) =>
    /\ Cardinality(pend) <= 1
    /\ \A o \in pend : /\ o = fsCalls[Len(fsCalls)]
                       /\ Len(settledLog) = Len(fsCalls) - 1
                       /\ o.who = tix
    /\ pend = {} => Len(settledLog) = Len(fsCalls)
    /\ \A k \in DOMAIN fsCalls :
         /\ fsCalls[k].who \in 1..Len(Targets)
         /\ fsCalls[k].path = PathAbs(Pwd, Targets[fsCalls[k].who])
    /\ \A j, k \in DOMAIN fsCalls : j < k => fsCalls[j].who <= fsCalls[k].who
    /\ \A j, k \in DOMAIN stdout : j < k => stdout[j].who <= stdout[k].who
    /\ \A k \in DOMAIN stdout : stdout[k].who <= tix

C4_Witness ==
  /\ inv.cmd = "ls" /\ Len(Targets) = 3 /\ pc = "done"
  /\ Len(fsCalls) = 4 /\ Len(stdout) = 3
  /\ \A k \in 1..3 : stdout[k].who = k

MkdirRuns == inv.cmd = "mkdir" /\ ~inv.help /\ inv.args # <<>>

\* C5: in mkdir a failed target does not stop processing: mkdir is called
\* exactly once for every target, in order, whatever failed before, and
\* stdout holds exactly one error line, naming the target, for each failed
\* target and none for a successful one.
C5_MkdirContinuesAfterFailure ==
  MkdirRuns =>
    /\ \A k \in DOMAIN fsCalls :
         /\ k <= Len(inv.args)
         /\ fsCalls[k] = Op("mkdir", PathAbs(Pwd, inv.args[k]), <<>>, k)
    /\ pc = "done" => Len(fsCalls) = Len(inv.args)
    /\ \A k \in DOMAIN settledLog :
         LET ws == { j \in DOMAIN stdout : stdout[j].who = k }
         IN IF Failed(k)
              THEN /\ Cardinality(ws) = 1
                   /\ \A j \in ws :
                        stdout[j].lines =
                          <<[t |-> "mkdir", path |-> PathAbs(Pwd, inv.args[k]),
                             err |-> settledLog[k].err]>>
              ELSE ws = {}
    /\ Len(stdout) = Cardinality({ k \in DOMAIN settledLog : Failed(k) })

C5_Witness ==
  /\ MkdirRuns /\ pc = "done" /\ Len(inv.args) = 3
  /\ ~Failed(1) /\ Failed(2) /\ ~Failed(3)
  /\ settledLog[2].err.kind = "Duplicate"
  /\ Len(stdout) = 1 /\ stdout[1].who = 2
  /\ Exists(fs, PathAbs(Pwd, inv.args[1]))
  /\ Exists(fs, PathAbs(Pwd, inv.args[3]))

\* C6: mkdir with targets closes only after the mkdir of every target has
\* settled; it closes with the Runtime error 'Some directories could not be
\* created' if and only if some target failed, and with closeOk otherwise.
C6_MkdirFinalOutcome ==
  MkdirRuns =>
    IF closeLog = <<>> THEN pc # "done"
    ELSE /\ Len(settledLog) = Len(inv.args)
         /\ pend = {}
         /\ closeLog = <<IF \E k \in DOMAIN settledLog : Failed(k)
                           THEN CloseErrorCall(SomeNotCreated)
                           ELSE CloseOkCall>>

C6_Witness ==
  /\ MkdirRuns /\ pc = "done" /\ Len(inv.args) = 2
  /\ Failed(1) /\ ~Failed(2)
  /\ closeLog = <<CloseErrorCall(SomeNotCreated)>>

MvRuns == inv.cmd = "mv" /\ ~inv.help /\ Len(inv.args) = 2

MvOp == Op("move", PathAbs(Pwd, inv.args[1]), PathAbs(Pwd, inv.args[2]), 1)

C7_WitnessMoved ==
  /\ MvRuns /\ pc = "done" /\ closeLog = <<CloseOkCall>>
  /\ ~Exists(fs, MvOp.path) /\ Exists(fs, MvOp.to)

BadArgCount ==
  \/ inv.cmd = "mkdir" /\ inv.args = <<>>
  \/ inv.cmd = "mv" /\ Len(inv.args) # 2

\* C8: with an invalid argument count (mkdir without targets, mv with other
\* than two) the command writes its usage text, closes Ok, and issues no
\* filesystem operation: the filesystem is unchanged.
C8_UsageOnBadArgCount ==
  BadArgCount =>
    /\ fsCalls = <<>> /\ pend = {} /\ fs = InitFs /\ settledLog = <<>>
    /\ IF pc = "start" THEN stdout = <<>> /\ closeLog = <<>>
       ELSE pc = "done" /\ stdout = <<Usage>> /\ closeLog = <<CloseOkCall>>

C8_Witness ==
  /\ inv.cmd = "mv" /\ Len(inv.args) = 3 /\ ~inv.help /\ pc = "done"

\* At least one of the timers set by the decoy's focus events has expired.
TimerExpired == timers < focusCnt

\* C9: in import, when the decoy has regained focus, its timer has expired
\* and no change event has fired, the command is closed with the Missing
\* 'file selection' error and no stat, mkdir or writeFile has been called.
C9_ImportCancel ==
  (inv.cmd = "import" /\ TimerExpired /\ ~chgFired) =>
    /\ closeLog = <<CloseErrorCall(MissingSelection)>>
    /\ fileCalls = <<>> /\ fsCalls = <<>> /\ pend = {} /\ fs = InitFs

C9_Witness ==
  /\ inv.cmd = "import" /\ ~chgFired /\ focusCnt = 2 /\ timers = 0
  /\ closeLog = <<CloseErrorCall(MissingSelection)>>

\* The close call the Promise.all handler makes for the completers' values:
\* closeOk when all are null, else Unknown with the values that are not.
AggregateCall ==
  LET errs == SelectSeq(results, LAMBDA e : e # NullV)
  IN IF Len(errs) = 0 THEN CloseOkCall ELSE CloseUnknownCall(errs)

\* C10: in import, once the files are selected the context is closed only
\* when the write of every selected file has settled, and once they all
\* have and the Promise.all handler has run it is closed with the one call
\* that is closeOk if every file succeeded and otherwise the Unknown error
\* holding exactly the failures.
C10_ImportJoin ==
  (inv.cmd = "import" /\ filesChosen) =>
    /\ closeLog # <<>> => AllSettled
    /\ joined => closeLog = <<AggregateCall>>

\* ---------------------------------------------------------------- liveness
\* Every filesystem operation settles, every timer expires, every file read
\* completes, every promise continuation runs, and the user of import
\* eventually selects files or returns focus to the decoy.
Fairness ==
  /\ WF_vars(LsMain \/ MkdirMain \/ MvMain \/ ImportMain)
  /\ WF_vars(LsListSettled \/ LsStatSettled \/ MkdirSettled \/ MvSettled)
  /\ WF_vars(\E i \in DOMAIN files :
               onFileLoad(i) \/ StatSettled(i) \/ MkdirParentSettled(i)
                 \/ WriteSettled(i))
  /\ WF_vars(CancelTimeout)
  /\ WF_vars(CopyJoin)
  /\ WF_vars(handleFileSelect \/ handleFileCancel)

FairSpec == Init /\ [][Next]_vars /\ Fairness

\* C3: under those assumptions every invocation of ls, mkdir, mv and import
\* eventually calls closeOk or closeError.
C3_EventuallyClosed == <>(closeLog # <<>>)

C3_Witness ==
  /\ inv.cmd = "import" /\ joined /\ Len(files) = 2 /\ Len(closeLog) = 1

\* The calls import makes for file i when its parent directory exists, and
\* when it does not.
ParentOf(i) == GetParentPath(files[i])

WriteOp(i) == Op("writeFile", files[i], <<>>, i)

DirectCalls(i) == <<Op("stat", ParentOf(i), <<>>, i), WriteOp(i)>>

ChainCalls(i) ==
  <<Op("stat", ParentOf(i), <<>>, i)>>
  \o [k \in 1..Len(ParentOf(i)) |-> Op("mkdir", MkdirChain(ParentOf(i))[k], <<>>, i)]
  \o <<WriteOp(i)>>

LogPrefix(p, q) == Len(p) <= Len(q) /\ SubSeq(q, 1, Len(p)) = p

Tolerated(s) == s.ok \/ (s.op = "mkdir" /\ DuplicateTest(s.err))

\* C11: in import, the calls for a file are stat(parent) and then either
\* writeFile at once (stat succeeded) or, after stat failed with NotFound,
\* one mkdir per ancestor from the top down and then writeFile; every call
\* is issued only after the one before it settled, a mkdir only after the
\* mkdir of its parent succeeded or failed with Duplicate, and writeFile
\* only when the parent directory exists.
C11_WriteAfterParentExists ==
  \A i \in DOMAIN files :
    LET log == fileCalls[i]
        out == fileSettled[i]
    IN /\ Len(out) <= Len(log) /\ Len(log) <= Len(out) + 1
       /\ \A k \in DOMAIN out : out[k].op = log[k].op
       /\ LogPrefix(log, DirectCalls(i)) \/ LogPrefix(log, ChainCalls(i))
       /\ \A k \in DOMAIN log :
            /\ log[k].op = "mkdir" =>
                 /\ k - 1 \in DOMAIN out
                 /\ IF k = 2 THEN ~out[1].ok /\ NotFoundTest(out[1].err)
                    ELSE Tolerated(out[k - 1])
            /\ log[k].op = "writeFile" =>
                 /\ k - 1 \in DOMAIN out
                 /\ Tolerated(out[k - 1])
                 /\ k = Len(log)
                 /\ Exists(fs, ParentOf(i))

\* A file whose parent chain was created with one mkdir failing with
\* Duplicate and one creating a directory, and which was then written.
C11_Witness ==
  \E i \in DOMAIN files :
    /\ fileCalls[i] = ChainCalls(i)
    /\ results[i] = NullV
    /\ \E k \in DOMAIN fileSettled[i] :
         fileSettled[i][k].op = "mkdir" /\ DuplicateTest(fileSettled[i][k].err)
    /\ \E k \in DOMAIN fileSettled[i] :
         fileSettled[i][k].op = "mkdir" /\ fileSettled[i][k].ok

\* C12: in import, once the file input and the decoy input are in the
\* document they stay there until destroy_ runs, and whenever the context
\* has been closed (all writes succeeded, some write failed, or the
\* selection was cancelled) destroy_ has run and the elements are gone.
C12_DestroyBeforeClose ==
  (inv.cmd = "import" /\ pc = "run") =>
    /\ attached <=> destroyCalls = 0
    /\ closeLog # <<>> => ~attached

\* Exit with a failed write: the elements are removed and the context is
\* closed with the Unknown error.
C12_Witness ==
  /\ inv.cmd = "import" /\ joined /\ ~attached /\ destroyCalls = 1
  /\ \E i \in DOMAIN results : results[i] # NullV
  /\ Len(closeLog) = 1 /\ closeLog[1].err.kind = "Unknown"

\* The failures ls reports, and the closeError calls it made.
FellBack(s) == s.op = "list" /\ ~s.ok /\ TypeMismatchTest(s.err)

HardFailures == SelectSeq(settledLog, LAMBDA s : ~s.ok /\ ~FellBack(s))

CloseErrors == SelectSeq(closeLog, LAMBDA c : c.call = "closeError")

\* C13: in ls, a list that failed with TypeMismatch is followed by stat of
\* the same path for the same target; when that stat succeeded exactly one
\* write was made for the target, of the one line of that entry, and the
\* next target's list was issued (or closeOk called after the last target);
\* closeError is called for the other failures only.
C13_LsStatFallback ==
  (inv.cmd = "ls" /\ ~inv.help) =>
    /\ Len(CloseErrors) = Len(HardFailures)
    /\ \A j \in DOMAIN CloseErrors : CloseErrors[j].err = HardFailures[j].err
    /\ \A k \in DOMAIN settledLog :
         FellBack(settledLog[k]) =>
           LET w == fsCalls[k].who
           IN /\ k + 1 \in DOMAIN fsCalls
              /\ fsCalls[k + 1] = Op("stat", fsCalls[k].path, <<>>, w)
              /\ (k + 1 \in DOMAIN settledLog /\ settledLog[k + 1].ok) =>
                   /\ Cardinality({ j \in DOMAIN stdout : stdout[j].who = w }) = 1
                   /\ \A j \in DOMAIN stdout :
                        stdout[j].who = w =>
                          /\ Len(stdout[j].lines) = 1
                          /\ stdout[j].lines =
                               StatText(fsCalls[k].path, fs[fsCalls[k].path])
                   /\ IF w < Len(Targets)
                        THEN /\ k + 2 \in DOMAIN fsCalls
                             /\ fsCalls[k + 2] =
                                  Op("list", PathAbs(Pwd, Targets[w + 1]), <<>>, w + 1)
                        ELSE /\ pc = "done"
                             /\ closeLog[Len(closeLog)] = CloseOkCall

\* ls b a: the file b is printed through stat, then the directory a is
\* listed and the command closes Ok.
C13_Witness ==
  /\ inv.cmd = "ls" /\ Len(settledLog) = 3
  /\ FellBack(settledLog[1])
  /\ settledLog[2].op = "stat" /\ settledLog[2].ok
  /\ settledLog[3].op = "list" /\ settledLog[3].ok
  /\ Len(stdout) = 2 /\ Len(stdout[1].lines) = 1
  /\ closeLog = <<CloseOkCall>>

\* The path of the entry that line l of write j of ls is about: a member of
\* the listed directory, or the target itself after the stat fallback.
EntryPath(j, l) ==
  LET p == PathAbs(Pwd, Targets[stdout[j].who])
  IN IF stdout[j].lines[1].t = "header"
       THEN Append(p, stdout[j].lines[l].name)
       ELSE p

FormattedKeys(line) == [i \in 1..Len(line.stat) |-> line.stat[i].key]

\* C14: in every entry line ls writes, the formatted stat of an entry whose
\* mode has the executable bit set, alone or with other bits, is the one
\* field signature, and the formatted stat of any other entry has no
\* signature field.
C14_FormatStatSignature ==
  (inv.cmd = "ls" /\ ~inv.help) =>
    \A j \in DOMAIN stdout : \A l \in DOMAIN stdout[j].lines :
      stdout[j].lines[l].t = "entry" =>
        LET keys == FormattedKeys(stdout[j].lines[l])
        IN IF BitAnd(fs[EntryPath(j, l)].mode, ModeX) # 0
             THEN keys = <<"signature">>
             ELSE \A i \in DOMAIN keys : keys[i] # "signature"

\* The place of an entry name in lexicographic order.
Position(n) == CHOOSE i \in DOMAIN NameOrder : NameOrder[i] = n

\* C15: every listing ls writes for a directory is one header line followed
\* by one entry line per member of the directory and nothing else, the
\* entry lines in lexicographic order of their names; the header ends with
\* 'empty.' for no member, '1 entry:' for one and 'N entries:' for more.
C15_ListingShape ==
  (inv.cmd = "ls" /\ ~inv.help) =>
    \A j \in DOMAIN stdout :
      LET lines == stdout[j].lines
          p == PathAbs(Pwd, Targets[stdout[j].who])
          members == { GetBaseName(q) : q \in Children(fs, p) }
          N == Cardinality(members)
      IN lines[1].t = "header" =>
           /\ Len(lines) = N + 1
           /\ lines[1].path = p /\ lines[1].N = N
           /\ lines[1].text = IF N = 0 THEN "empty."
                              ELSE IF N = 1 THEN "1 entry:" ELSE "N entries:"
           /\ \A l \in 2..Len(lines) : lines[l].t = "entry"
           /\ { lines[l].name : l \in 2..Len(lines) } = members
           /\ \A l, m \in 2..Len(lines) :
                l < m => Position(lines[l].name) < Position(lines[m].name)

\* ls e .. a: an empty directory, a directory of one entry and one of three.
C15_Witness ==
  /\ inv.cmd = "ls" /\ Len(stdout) = 3
  /\ stdout[1].lines[1].text = "empty." /\ Len(stdout[1].lines) = 1
  /\ stdout[2].lines[1].text = "1 entry:" /\ Len(stdout[2].lines) = 2
  /\ stdout[3].lines[1].text = "N entries:" /\ Len(stdout[3].lines) = 4
  /\ closeLog = <<CloseOkCall>>

\* C16: the line ls writes for a regular file through the stat fallback is
\* the entry line of the listing of a directory whose only entry is that
\* file: same name, same separator and padding, same formatted stat.
C16_FallbackLineIsEntryLine ==
  (inv.cmd = "ls" /\ ~inv.help) =>
    \A j \in DOMAIN stdout :
      LET p == PathAbs(Pwd, Targets[stdout[j].who])
          only == (GetBaseName(p) :> fs[p])
      IN stdout[j].lines[1].t = "entry" =>
           stdout[j].lines = Tail(ListingText(GetParentPath(p), only))

\* C17: in every invocation of import where the change event has fired,
\* before or after a focus event of the decoy and the expiry of its timer,
\* the context is not closed with Missing 'file selection', destroy_ is
\* called at most once, and a close call is the one of the Promise.all
\* handler, with the aggregate of the files' results.
C17_SelectionWinsRace ==
  (inv.cmd = "import" /\ chgFired) =>
    /\ \A k \in DOMAIN closeLog : closeLog[k] # CloseErrorCall(MissingSelection)
    /\ destroyCalls <= 1
    /\ closeLog # <<>> => (joined /\ closeLog = <<AggregateCall>>)

\* Two selected files lie under a common directory that does not exist when
\* import starts.
SharedMissingAncestor ==
  \E i, j \in DOMAIN files : \E n \in 1..Len(files[i]) - 1 :
    /\ i # j
    /\ n < Len(files[j])
    /\ SubSeq(files[i], 1, n) = SubSeq(files[j], 1, n)
    /\ ~Exists(InitFs, SubSeq(files[i], 1, n))

\* No operation of import failed except stat with NotFound and mkdir with
\* Duplicate.
OtherwiseSucceeded ==
  \A i \in DOMAIN fileSettled : \A k \in DOMAIN fileSettled[i] :
    LET s == fileSettled[i][k]
    IN Tolerated(s) \/ (s.op = "stat" /\ NotFoundTest(s.err))

\* C18: in import with two files under a shared missing directory, in every
\* interleaving of their chains no file's result is a Duplicate error of a
\* mkdir, and when nothing else failed and the Promise.all handler has run,
\* every file has result null and is in the filesystem and the context has
\* been closed with the one call closeOk.
C18_SharedAncestorRace ==
  (inv.cmd = "import" /\ SharedMissingAncestor) =>
    /\ \A i \in DOMAIN results : ~DuplicateTest(results[i])
    /\ (joined /\ OtherwiseSucceeded) =>
         /\ \A i \in DOMAIN files : results[i] = NullV /\ Exists(fs, files[i])
         /\ closeLog = <<CloseOkCall>>

\* A failure that ends the chain of a file before its write: stat failing
\* with an error other than NotFound, mkdir with one other than Duplicate.
Confining(s) ==
  /\ ~s.ok
  /\ \/ s.op = "stat" /\ ~NotFoundTest(s.err)
     \/ s.op = "mkdir" /\ ~DuplicateTest(s.err)

\* After such a failure no further call is made for the file and its
\* completer holds that error; the completer of every finished file holds
\* the outcome of that file's own last call; every unfinished file can take
\* its next step whatever happened to the others, and the Promise.all
\* handler runs only when all are finished.
FailureConfined ==
  \A i \in DOMAIN files :
    LET log == fileCalls[i]
        out == fileSettled[i]
    IN /\ \A k \in DOMAIN out :
            Confining(out[k]) =>
              /\ k = Len(log)
              /\ \A m \in DOMAIN log : log[m].op # "writeFile"
              /\ fstate[i] = "done"
              /\ results[i] = out[k].err
       /\ fstate[i] = "done" =>
            /\ Len(out) = Len(log) /\ out # <<>>
            /\ results[i] = IF out[Len(out)].ok THEN NullV ELSE out[Len(out)].err
       /\ fstate[i] # "done" =>
            /\ results[i] = UnsetV /\ ~joined
            /\ ENABLED (onFileLoad(i) \/ StatSettled(i) \/ MkdirParentSettled(i)
                          \/ WriteSettled(i))

\* C19: in import, a stat of the parent failing with an error other than
\* NotFound, or a mkdir of an ancestor failing with one other than
\* Duplicate, ends the calls for that file without a writeFile and is
\* recorded as the file's result, which never changes afterwards; the
\* other files go on with their own calls and get their own results.
C19_FailureConfined ==
  /\ []FailureConfined
  /\ [][\A i \in DOMAIN results :
          results[i] # UnsetV => (i \in DOMAIN results' /\ results'[i] = results[i])]_vars

\* One file stopped by a failing mkdir of an ancestor, another one written.
C19_Witness ==
  /\ inv.cmd = "import" /\ joined
  /\ \E i, j \in DOMAIN files :
       /\ i # j
       /\ Confining(fileSettled[i][Len(fileSettled[i])])
       /\ fileSettled[i][Len(fileSettled[i])].op = "mkdir"
       /\ results[i].kind = "Backend"
       /\ results[j] = NullV /\ fileCalls[j][Len(fileCalls[j])] = WriteOp(j)

DeferredDispatches == SelectSeq(dispatchLog, LAMBDA d : d.deferred)

DirectDispatches == SelectSeq(dispatchLog, LAMBDA d : ~d.deferred)

\* C20: in the bootstrap, every dispatch of 'launch-app' is made with the
\* commands service bound and READY; a launch event that finds it unbound
\* or not READY sets didLaunchEarly and is not dispatched, every other
\* launch event is dispatched at once; once the whenReady handler has run
\* there is exactly one deferred dispatch if any launch came early,
\* however many did, and none otherwise.
C20_LaunchDeferredUntilReady ==
  /\ \A k \in DOMAIN dispatchLog :
       dispatchLog[k].commands # "null" /\ dispatchLog[k].state = "READY"
  /\ didLaunchEarly <=> earlyLaunches > 0
  /\ Len(DirectDispatches) = launches - earlyLaunches
  /\ Len(DeferredDispatches) <= 1
  /\ bootPc # "ready" => DeferredDispatches = <<>>
  /\ bootPc = "ready" =>
       Len(DeferredDispatches) = IF earlyLaunches > 0 THEN 1 ELSE 0

\* Two launches came early, one after the service was bound and READY, and
\* the whenReady handler has made the one deferred dispatch.
C20_Witness ==
  /\ bootPc = "ready" /\ launches = 3 /\ earlyLaunches = 2
  /\ Len(DeferredDispatches) = 1 /\ Len(DirectDispatches) = 1

====
